---- MODULE Spec2Model ----
(***************************************************************************)
(* Component placeholder nodes of the virtual DOM                           *)
(* (src/vue/src/core/vdom/create-component.js).                             *)
(*                                                                          *)
(* Three state machines share this module:                                  *)
(*   Spec        the four patch hooks of componentVNodeHooks acting on      *)
(*               placeholder nodes and the instances they hold;             *)
(*   SpecInstall installComponentHooks / mergeHook acting on one hook set;  *)
(*   SpecBuild   createComponent (with transformModel) building a node.     *)
(* Calls that leave the file (callHook, updateChildComponent, $mount,       *)
(* $destroy, the scheduler queue, ...) are recorded as events of the call   *)
(* that made them, in the order the code makes them.                        *)
(***************************************************************************)
EXTENDS Integers, Sequences, FiniteSets, TLC

(***************************************************************************)
(* Bounds                                                                   *)
(***************************************************************************)
NumNodes == 2
MaxInst == 2
MaxQueue == 1
MaxInstalls == 2

Nodes == 1..NumNodes
Insts == 1..MaxInst
\* vnode.componentInstance of a node that holds no instance
NoInst == 0
\* the instance that rendered the placeholder nodes (vnode.context)
Contexts == {"ctx"}
\* the instances that can be activeInstance while a node is initialised
ActiveInstances == {"ctx", "vmP"}
\* vnode.componentOptions: every node is built with inputs of its own
componentOptions ==
  [n \in Nodes |-> [propsData |-> <<"propsData", n>>,
                    listeners |-> <<"listeners", n>>,
                    children |-> <<"children", n>>]]

VARIABLES
  componentInstance, \* node -> instance held in vnode.componentInstance
  keepAlive,         \* node -> vnode.data.keepAlive
  context,           \* node -> vnode.context
  ctxMounted,        \* context -> context._isMounted
  vm,                \* instance -> [_isMounted, _isDestroyed]
  nInst,             \* number of instances constructed so far
  mountedCalls,      \* instance -> number of callHook(instance, 'mounted')
  destroyCalls,      \* instance -> number of instance.$destroy()
  activatedChildren, \* the scheduler's activation queue
  inactive,          \* the queued instances deactivated since they were queued
  last,              \* the hook call under way and the outside calls it made
  rt,                \* progress of a keep-alive destroy/init/insert round trip
  \* installComponentHooks on one data bag
  hasHook,           \* data.hook is defined
  hook,              \* hook name -> the function in data.hook[name]
  installs,          \* number of installations made on the bag
  given,             \* data.hook as the user supplied it
  firstHook,         \* data.hook as the first installation left it
  invoked,           \* the last invocation of a slot and the calls it made
  \* createComponent on one occurrence
  production,        \* process.env.NODE_ENV === 'production'
  arg,               \* the arguments: Ctor, data, context, children, tag
  resolved,          \* what resolveAsyncComponent returns for the factory
  built,             \* the result of the last createComponent call
  pended             \* a build of this occurrence returned the async placeholder

lifeVars == <<componentInstance, keepAlive, context, ctxMounted,
              vm, nInst, mountedCalls, destroyCalls,
              activatedChildren, inactive, last, rt>>
installVars == <<hasHook, hook, given, installs, firstHook, invoked>>
buildVars == <<production, arg, resolved, built, pended>>
vars == <<lifeVars, installVars, buildVars>>

(***************************************************************************)
(* Outside calls, as events                                                 *)
(***************************************************************************)
\* new vnode.componentOptions.Ctor({_isComponent, _parentVnode, parent})
EvConstruct(i, n, parent) ==
  [e |-> "construct", inst |-> i, vnode |-> n, parent |-> parent]
\* child.$mount(hydrating ? vnode.elm : undefined, hydrating)
EvMount(i, n, hydrating) ==
  [e |-> "$mount", inst |-> i, el |-> IF hydrating THEN n ELSE 0,
   hydrating |-> hydrating]
\* updateChildComponent(child, propsData, listeners, vnode, children)
EvUpdate(i, o, n) ==
  [e |-> "update", inst |-> i, propsData |-> o.propsData,
   listeners |-> o.listeners, vnode |-> n, children |-> o.children]
\* callHook(componentInstance, 'mounted')
EvCallHook(i, name) == [e |-> "callHook", inst |-> i, hook |-> name]
\* queueActivatedComponent(componentInstance)
EvQueue(i) == [e |-> "queueActivated", inst |-> i]
\* activateChildComponent(componentInstance, true)
EvActivate(i) == [e |-> "activate", inst |-> i, direct |-> TRUE]
\* deactivateChildComponent(componentInstance, true)
EvDeactivate(i) == [e |-> "deactivate", inst |-> i, direct |-> TRUE]
\* componentInstance.$destroy()
EvDestroy(i) == [e |-> "$destroy", inst |-> i]

\* the number of events of kind k in a sequence of events
RECURSIVE CountEv(_, _)
CountEv(evs, k) ==
  IF evs = <<>> THEN 0
  ELSE (IF Head(evs).e = k THEN 1 ELSE 0) + CountEv(Tail(evs), k)

\* no hook call is under way; a call records its arguments, the activeInstance
\* it read, the instance its node held when it was made and its outside calls
NoCall ==
  [op |-> "none", old |-> 0, node |-> 0, active |-> "none", prev |-> 0,
   events |-> <<>>]
NoTrip == [phase |-> 0, inst |-> 0, node |-> 0, base |-> 0]

(***************************************************************************)
(* Effects of the hooks on the nodes and instances                          *)
(***************************************************************************)
\* prepatch without the assignment to vnode.componentInstance
prepatchOwnerKept(ci, o, n) == ci

\* prepatch taking the instance away from the old node
prepatchOwnerMoved(ci, o, n) ==
  [m \in Nodes |-> IF m = n THEN ci[o] ELSE IF m = o THEN NoInst ELSE ci[m]]

\* prepatch: const child = vnode.componentInstance = oldVnode.componentInstance
prepatchOwner(ci, o, n) == [ci EXCEPT ![n] = ci[o]]

\* prepatch updating the instance the new node held before the assignment
prepatchEventsStaleChild(ci, opts, o, n) == <<EvUpdate(ci[n], opts[n], n)>>

\* prepatch: the call of updateChildComponent
prepatchEvents(ci, opts, o, n) == <<EvUpdate(ci[o], opts[n], n)>>

\* createComponentInstanceForVnode parenting the instance to vnode.context
createComponentInstanceForContext(i, vnode, parent) ==
  EvConstruct(i, vnode, context[vnode])

\* createComponentInstanceForVnode(vnode, parent): the options record handed to
\* new vnode.componentOptions.Ctor(options); i is the instance that results
createComponentInstanceForVnode(i, vnode, parent) ==
  EvConstruct(i, vnode, parent)

\* init, creating branch: the construction, then child.$mount
initCreateEvents(i, n, activeInstance, hydrating) ==
  <<createComponentInstanceForVnode(i, n, activeInstance),
    EvMount(i, n, hydrating)>>

\* init without the kept-alive branch
initIsKeptAliveNever(n) == FALSE

\* init without the test of componentInstance._isDestroyed
initIsKeptAliveDestroyed(n) ==
  componentInstance[n] # NoInst /\ keepAlive[n]

\* init: the test that sends a kept-alive node to prepatch
initIsKeptAlive(n) ==
  /\ componentInstance[n] # NoInst
  /\ ~vm[componentInstance[n]]._isDestroyed
  /\ keepAlive[n]

\* insert testing componentInstance._isDestroyed as well
insertMountsLive(i) == ~vm[i]._isMounted /\ ~vm[i]._isDestroyed

\* insert: if (!componentInstance._isMounted) { _isMounted = true; callHook }
insertMounts(i) == ~vm[i]._isMounted

\* insert without componentInstance._isMounted = true
insertVmUnset(i) == vm

\* insert: componentInstance._isMounted = true, under the test
insertVm(i) ==
  IF insertMounts(i) THEN [vm EXCEPT ![i]._isMounted = TRUE] ELSE vm

insertMountedEvents(i) ==
  IF insertMounts(i) THEN <<EvCallHook(i, "mounted")>> ELSE <<>>

\* insert testing componentInstance._isMounted in place of context._isMounted
insertGateByInstance(n) ==
  insertVm(componentInstance[n])[componentInstance[n]]._isMounted

\* insert: if (vnode.data.keepAlive) { if (context._isMounted) queue else activate }
insertGate(n) == ctxMounted[context[n]]

insertQueues(n) == keepAlive[n] /\ insertGate(n)

insertActivates(n) == keepAlive[n] /\ ~insertGate(n)

\* insert activating the instance directly whatever the context
insertKeepAliveEventsEager(n, i) ==
  IF keepAlive[n] THEN <<EvActivate(i)>> ELSE <<>>

insertKeepAliveEvents(n, i) ==
  IF insertQueues(n) THEN <<EvQueue(i)>>
  ELSE IF insertActivates(n) THEN <<EvActivate(i)>>
  ELSE <<>>

\* destroy without the test of componentInstance._isDestroyed
destroyTearsDownAgain(n, i) == ~keepAlive[n]

\* destroy: if (!_isDestroyed) { if (!keepAlive) $destroy() else deactivate }
destroyTearsDown(n, i) == ~vm[i]._isDestroyed /\ ~keepAlive[n]

destroyDeactivates(n, i) == ~vm[i]._isDestroyed /\ keepAlive[n]

destroyEvents(n, i) ==
  IF destroyTearsDown(n, i) THEN <<EvDestroy(i)>>
  ELSE IF destroyDeactivates(n, i) THEN <<EvDeactivate(i)>>
  ELSE <<>>

\* Vue.prototype.$destroy marks the instance destroyed
vmDestroyed(i) == [vm EXCEPT ![i]._isDestroyed = TRUE]

\* the instance waits in the activation queue
InQueue(i) ==
  \E j \in 1..Len(activatedChildren) : activatedChildren[j] = i

\* deactivateChildComponent suspends the instance; the drain of the queue
\* reads the mark of the instances that wait in it
vmDeactivated(i) == IF InQueue(i) THEN inactive \cup {i} ELSE inactive

\* queueActivatedComponent and activateChildComponent ask for the instance to
\* be resumed
vmResumed(i) == inactive \ {i}

(***************************************************************************)
(* The keep-alive round trip: destroy, then init, then insert, back to back *)
(***************************************************************************)
tripAfterDestroy(n, i) ==
  IF destroyDeactivates(n, i)
  THEN [phase |-> 1, inst |-> i, node |-> n, base |-> nInst]
  ELSE NoTrip

tripAfterInit(n) ==
  IF rt.phase = 1 /\ keepAlive[n] /\ componentInstance[n] = rt.inst
  THEN [rt EXCEPT !.phase = 2, !.node = n]
  ELSE NoTrip

tripAfterInsert(n) ==
  IF rt.phase = 2 /\ rt.node = n /\ componentInstance[n] = rt.inst
  THEN [rt EXCEPT !.phase = 3]
  ELSE NoTrip

(***************************************************************************)
(* componentVNodeHooks                                                      *)
(***************************************************************************)
\* Nodes are interchangeable, so the kept-alive ones are taken to be the first.
LifeInit ==
  /\ componentInstance = [n \in Nodes |-> NoInst]
  /\ keepAlive \in [Nodes -> BOOLEAN]
  /\ \A n \in Nodes : (n > 1 /\ keepAlive[n]) => keepAlive[n - 1]
  /\ context \in [Nodes -> Contexts]
  /\ ctxMounted = [c \in Contexts |-> FALSE]
  /\ vm = [i \in Insts |-> [_isMounted |-> FALSE, _isDestroyed |-> FALSE]]
  /\ nInst = 0
  /\ mountedCalls = [i \in Insts |-> 0]
  /\ destroyCalls = [i \in Insts |-> 0]
  /\ activatedChildren = <<>>
  /\ inactive = {}
  /\ last = NoCall
  /\ rt = NoTrip

\* init, kept-alive branch: componentVNodeHooks.prepatch(mountedNode, mountedNode)
initKeptAlive(n) ==
  /\ last = NoCall
  /\ initIsKeptAlive(n)
  /\ componentInstance' = prepatchOwner(componentInstance, n, n)
  /\ last' = [op |-> "init", old |-> 0, node |-> n, active |-> "none",
              prev |-> componentInstance[n],
              events |-> prepatchEvents(componentInstance, componentOptions, n, n)]
  /\ rt' = tripAfterInit(n)
  /\ UNCHANGED <<keepAlive, context, ctxMounted, vm, nInst,
                 mountedCalls, destroyCalls, activatedChildren, inactive>>
  /\ UNCHANGED <<installVars, buildVars>>

\* init, other branch: createComponentInstanceForVnode(vnode, activeInstance),
\* then child.$mount
initCreate(n, activeInstance, hydrating) ==
  /\ last = NoCall
  /\ ~initIsKeptAlive(n)
  /\ nInst < MaxInst
  /\ nInst' = nInst + 1
  /\ componentInstance' = [componentInstance EXCEPT ![n] = nInst + 1]
  /\ last' = [op |-> "init", old |-> 0, node |-> n, active |-> activeInstance,
              prev |-> componentInstance[n],
              events |-> initCreateEvents(nInst + 1, n, activeInstance, hydrating)]
  /\ rt' = tripAfterInit(n)
  /\ UNCHANGED <<keepAlive, context, ctxMounted, vm,
                 mountedCalls, destroyCalls, activatedChildren, inactive>>
  /\ UNCHANGED <<installVars, buildVars>>

init(n, activeInstance, hydrating) ==
  \/ initKeptAlive(n)
  \/ initCreate(n, activeInstance, hydrating)

\* prepatch, insert and destroy take a MountedComponentVNode: the patch calls
\* them on nodes that hold an instance
prepatch(o, n) ==
  /\ last = NoCall
  /\ componentInstance[o] # NoInst
  /\ componentInstance' = prepatchOwner(componentInstance, o, n)
  /\ last' = [op |-> "prepatch", old |-> o, node |-> n, active |-> "none",
              prev |-> componentInstance[n],
              events |-> prepatchEvents(componentInstance, componentOptions, o, n)]
  /\ rt' = NoTrip
  /\ UNCHANGED <<keepAlive, context, ctxMounted, vm, nInst,
                 mountedCalls, destroyCalls, activatedChildren, inactive>>
  /\ UNCHANGED <<installVars, buildVars>>

insert(n) ==
  LET i == componentInstance[n] IN
  /\ last = NoCall
  /\ i # NoInst
  /\ insertQueues(n) => Len(activatedChildren) < MaxQueue
  /\ vm' = insertVm(i)
  /\ mountedCalls' =
       [mountedCalls EXCEPT
          ![i] = @ + CountEv(insertMountedEvents(i), "callHook")]
  /\ activatedChildren' =
       IF insertQueues(n) THEN Append(activatedChildren, i)
       ELSE activatedChildren
  /\ last' = [op |-> "insert", old |-> 0, node |-> n, active |-> "none",
              prev |-> i,
              events |-> insertMountedEvents(i) \o insertKeepAliveEvents(n, i)]
  /\ inactive' =
       IF insertKeepAliveEvents(n, i) # <<>> THEN vmResumed(i) ELSE inactive
  /\ rt' = tripAfterInsert(n)
  /\ UNCHANGED <<componentInstance, keepAlive, context, ctxMounted, nInst, destroyCalls>>
  /\ UNCHANGED <<installVars, buildVars>>

destroy(n) ==
  LET i == componentInstance[n] IN
  /\ last = NoCall
  /\ i # NoInst
  /\ vm' = IF destroyTearsDown(n, i) THEN vmDestroyed(i) ELSE vm
  /\ destroyCalls' =
       [destroyCalls EXCEPT ![i] = @ + CountEv(destroyEvents(n, i), "$destroy")]
  /\ last' = [op |-> "destroy", old |-> 0, node |-> n, active |-> "none",
              prev |-> i,
              events |-> destroyEvents(n, i)]
  /\ inactive' =
       IF CountEv(destroyEvents(n, i), "deactivate") > 0 THEN vmDeactivated(i)
       ELSE inactive
  /\ rt' = tripAfterDestroy(n, i)
  /\ UNCHANGED <<componentInstance, keepAlive, context, ctxMounted, nInst, mountedCalls, activatedChildren>>
  /\ UNCHANGED <<installVars, buildVars>>

\* the hook returns to the patch, which goes on to its next call; the record
\* of the call is dropped
hookReturns ==
  /\ last # NoCall
  /\ last' = NoCall
  /\ UNCHANGED <<componentInstance, keepAlive, context, ctxMounted, vm, nInst,
                 mountedCalls, destroyCalls, activatedChildren, inactive, rt>>
  /\ UNCHANGED <<installVars, buildVars>>

\* the instance that rendered the nodes finishes its own mount
contextMounted(c) ==
  /\ last = NoCall
  /\ ~ctxMounted[c]
  /\ ctxMounted' = [ctxMounted EXCEPT ![c] = TRUE]
  /\ last' = NoCall
  /\ rt' = NoTrip
  /\ UNCHANGED <<componentInstance, keepAlive, context, vm,
                 nInst, mountedCalls, destroyCalls, activatedChildren, inactive>>
  /\ UNCHANGED <<installVars, buildVars>>

\* the activations the drain of a queue makes: one for every queued instance
\* that was not removed after it was queued
RECURSIVE flushEvents(_)
flushEvents(queue) ==
  IF queue = <<>> THEN <<>>
  ELSE (IF Head(queue) \in inactive \/ vm[Head(queue)]._isDestroyed THEN <<>>
        ELSE <<EvActivate(Head(queue))>>) \o flushEvents(Tail(queue))

\* the scheduler drains and clears the activation queue after the patch
flushActivated ==
  /\ last = NoCall
  /\ activatedChildren # <<>>
  /\ activatedChildren' = <<>>
  /\ last' = [op |-> "flush", old |-> 0, node |-> 0, active |-> "none",
              prev |-> 0, events |-> flushEvents(activatedChildren)]
  /\ rt' = NoTrip
  /\ inactive' = {}
  /\ UNCHANGED <<componentInstance, keepAlive, context, ctxMounted, vm, nInst,
                 mountedCalls, destroyCalls>>
  /\ UNCHANGED <<installVars, buildVars>>

(***************************************************************************)
(* installComponentHooks and mergeHook                                      *)
(*                                                                          *)
(* A function in a hook slot is the calls it makes when invoked (body), its *)
(* _merged tag and how deep it nests merged closures; an empty slot is      *)
(* Undefined.                                                               *)
(***************************************************************************)
\* const hooksToMerge = Object.keys(componentVNodeHooks)
hooksToMerge == <<"init", "prepatch", "insert", "destroy">>

HookNames == {hooksToMerge[j] : j \in 1..Len(hooksToMerge)}
UserFns == {"user1", "user2"}
HookArgs == {"x", "y"}

Undefined == [id |-> "undefined", _merged |-> FALSE, body |-> <<>>, depth |-> 0]

\* componentVNodeHooks[key]
componentVNodeHooks(key) ==
  [id |-> key, _merged |-> FALSE, body |-> <<key>>, depth |-> 0]

\* a hook function supplied by the user
UserHook(u) == [id |-> u, _merged |-> FALSE, body |-> <<u>>, depth |-> 0]

\* mergeHook calling f2 before f1
mergeHookSwapped(f1, f2) ==
  [id |-> "merged", _merged |-> TRUE, body |-> f2.body \o f1.body,
   depth |-> 1 + (IF f1.depth > f2.depth THEN f1.depth ELSE f2.depth)]

\* mergeHook: merged = (a, b) => { f1(a, b); f2(a, b) }; merged._merged = true
mergeHook(f1, f2) ==
  [id |-> "merged", _merged |-> TRUE, body |-> f1.body \o f2.body,
   depth |-> 1 + (IF f1.depth > f2.depth THEN f1.depth ELSE f2.depth)]

\* installComponentHooks without the test of existing._merged
installSlotRewrap(key, existing) ==
  IF existing # componentVNodeHooks(key)
  THEN (IF existing # Undefined
        THEN mergeHook(componentVNodeHooks(key), existing)
        ELSE componentVNodeHooks(key))
  ELSE existing

\* installComponentHooks: the body of the loop, for one key
installSlot(key, existing) ==
  LET toMerge == componentVNodeHooks(key) IN
  IF existing # toMerge /\ ~(existing # Undefined /\ existing._merged)
  THEN (IF existing # Undefined THEN mergeHook(toMerge, existing) ELSE toMerge)
  ELSE existing

\* installComponentHooks: data.hook after the loop over hooksToMerge
installComponentHooks(hooks) ==
  [key \in HookNames |-> installSlot(key, hooks[key])]

\* the calls a hook function makes when it is invoked with (a, b)
Invoke(f, a, b) ==
  [j \in 1..Len(f.body) |-> [fn |-> f.body[j], a |-> a, b |-> b]]

\* the number of calls of fn in a sequence of calls
RECURSIVE CountCalls(_, _)
CountCalls(calls, fn) ==
  IF calls = <<>> THEN 0
  ELSE (IF Head(calls).fn = fn THEN 1 ELSE 0) + CountCalls(Tail(calls), fn)

NoInvoke == [key |-> "none", a |-> "none", b |-> "none", calls |-> <<>>]

NoHooks == [key \in HookNames |-> Undefined]

InstallIdle ==
  /\ hasHook = FALSE
  /\ hook = NoHooks
  /\ given = NoHooks
  /\ installs = 0
  /\ firstHook = NoHooks
  /\ invoked = NoInvoke

\* a data bag without data.hook, or with any of the four slots empty, holding
\* the default hook or holding a user hook
InstallInit ==
  /\ hasHook \in BOOLEAN
  /\ hook \in [HookNames -> {Undefined} \cup {UserHook(u) : u \in UserFns}
                             \cup {componentVNodeHooks(k) : k \in HookNames}]
  /\ \A k \in HookNames :
       hook[k].id \in HookNames => hook[k] = componentVNodeHooks(k)
  /\ ~hasHook => hook = NoHooks
  /\ given = hook
  /\ installs = 0
  /\ firstHook = NoHooks
  /\ invoked = NoInvoke

\* installComponentHooks(data)
install ==
  /\ installs < MaxInstalls
  /\ hasHook' = TRUE
  /\ hook' = installComponentHooks(hook)
  /\ installs' = installs + 1
  /\ firstHook' = IF installs = 0 THEN hook' ELSE firstHook
  /\ invoked' = NoInvoke
  /\ UNCHANGED given
  /\ UNCHANGED <<lifeVars, buildVars>>

\* the patch invokes data.hook[key](a, b)
invoke(key, a, b) ==
  /\ hook[key] # Undefined
  /\ invoked' = [key |-> key, a |-> a, b |-> b,
                 calls |-> Invoke(hook[key], a, b)]
  /\ UNCHANGED <<hasHook, hook, given, installs, firstHook>>
  /\ UNCHANGED <<lifeVars, buildVars>>

(***************************************************************************)
(* The values createComponent works on                                      *)
(***************************************************************************)
EventNames == {"input", "change", "click"}
PropNames == {"value", "checked"}

\* a listener entry: undefined, one function, or an array of functions
NoListener == [kind |-> "undefined", fns |-> <<>>]
Fn(f) == [kind |-> "function", fns |-> <<f>>]
Arr(fs) == [kind |-> "array", fns |-> fs]

\* data.on / data.nativeOn: undefined, or an object from event names to listeners
NoBag == [isDef |-> FALSE, ev |-> [e \in EventNames |-> NoListener]]
EmptyBag == [isDef |-> TRUE, ev |-> [e \in EventNames |-> NoListener]]
Bag(e, l) == [isDef |-> TRUE, ev |-> [EmptyBag.ev EXCEPT ![e] = l]]

\* data.attrs: undefined, or an object from names to values
NoAttrs == [isDef |-> FALSE, val |-> [p \in PropNames |-> "undefined"]]
EmptyAttrs == [isDef |-> TRUE, val |-> [p \in PropNames |-> "undefined"]]

NoModel == [isDef |-> FALSE, value |-> "undefined", callback |-> "undefined"]

\* the data bag: undefined, or {} with the entries that are set
UndefinedData ==
  [isDef |-> FALSE, model |-> NoModel, attrs |-> NoAttrs, on |-> NoBag,
   nativeOn |-> NoBag, hasHook |-> FALSE, hook |-> NoHooks, slot |-> "",
   staticClass |-> ""]

EmptyData == [UndefinedData EXCEPT !.isDef = TRUE]

\* Ctor.options
NoOptionsModel == [isDef |-> FALSE, prop |-> "", event |-> ""]

OptionsModels ==
  {NoOptionsModel,
   [isDef |-> TRUE, prop |-> "checked", event |-> "change"],
   [isDef |-> TRUE, prop |-> "checked", event |-> ""]}

NoOptions ==
  [model |-> NoOptionsModel, props |-> {}, functional |-> FALSE,
   abstract |-> FALSE, name |-> ""]

OptionChoices ==
  {[model |-> m, props |-> ps, functional |-> k = "functional",
    abstract |-> k = "abstract", name |-> ""] :
     m \in OptionsModels, ps \in {{}, PropNames},
     k \in {"stateful", "functional", "abstract"}}
  \cup {[NoOptions EXCEPT !.name = "Named"]}

\* a component reference: typeof, the cid (0 when it has none), the options
\* it carries (for an async factory: of the constructor it resolves to)
UndefinedRef ==
  [typeof |-> "undefined", cid |-> 0, options |-> NoOptions, str |-> "undefined"]

InvalidRefs ==
  {[typeof |-> "number", cid |-> 0, options |-> NoOptions, str |-> "42"],
   [typeof |-> "string", cid |-> 0, options |-> NoOptions, str |-> "div"],
   [typeof |-> "boolean", cid |-> 0, options |-> NoOptions, str |-> "true"]}

NullRef == [typeof |-> "null", cid |-> 0, options |-> NoOptions, str |-> "null"]

ObjectRefs ==
  {[typeof |-> "object", cid |-> 0, options |-> o, str |-> "[object Object]"] :
     o \in OptionChoices}

CtorRefs ==
  {[typeof |-> "function", cid |-> 1, options |-> o, str |-> "VueComponent"] :
     o \in OptionChoices}

FactoryRefs ==
  {[typeof |-> "function", cid |-> 0, options |-> o, str |-> "factory"] :
     o \in OptionChoices}

Refs ==
  {UndefinedRef, NullRef} \cup InvalidRefs \cup ObjectRefs \cup CtorRefs
    \cup FactoryRefs

\* the listeners a data bag can hold in data.on
OnChoices ==
  {NoBag, EmptyBag}
    \cup {Bag(e, l) : e \in {"input", "change"},
                      l \in {Fn("g"), Fn("fn"), Arr(<<"g", "h">>),
                             Arr(<<"g", "fn">>), Arr(<<>>)}}

\* the data bags a render can pass
DataChoices ==
  {UndefinedData}
    \cup {[isDef |-> TRUE, model |-> m, attrs |-> a, on |-> on, nativeOn |-> n,
           hasHook |-> x, slot |-> IF x THEN "s" ELSE "",
           staticClass |-> IF x THEN "c" ELSE "",
           hook |-> IF x THEN [NoHooks EXCEPT !["insert"] = UserHook("user1")]
                    ELSE NoHooks] :
            m \in {NoModel, [isDef |-> TRUE, value |-> "v1", callback |-> "fn"]},
            a \in {NoAttrs, [EmptyAttrs EXCEPT !.val["value"] = "v0"]},
            on \in OnChoices,
            n \in {NoBag, Bag("click", Fn("n"))},
            x \in BOOLEAN}

(***************************************************************************)
(* The collaborators of createComponent                                     *)
(***************************************************************************)
\* isUndef(Ctor): undefined or null
isUndef(ref) == ref.typeof \in {"undefined", "null"}

\* isObject(Ctor): not null and typeof 'object'
isObject(ref) == ref.typeof = "object"

\* baseCtor.extend(Ctor): a constructor with a cid and the options given
extend(ref) ==
  [typeof |-> "function", cid |-> 2, options |-> ref.options,
   str |-> "VueComponent"]

\* resolveAsyncComponent(factory, baseCtor): the constructor when the factory
\* has resolved, undefined when it has not
resolveAsyncComponent(factory, ready) ==
  IF ready
  THEN [typeof |-> "function", cid |-> 3, options |-> factory.options,
        str |-> "VueComponent"]
  ELSE UndefinedRef

\* createAsyncPlaceholder(factory, data, context, children, tag)
createAsyncPlaceholder(factory, data, ctx, children, tag) ==
  [asyncFactory |-> factory,
   asyncMeta |-> [data |-> data, context |-> ctx, children |-> children,
                  tag |-> tag]]

\* extractPropsFromVNodeData(data, Ctor, tag): the declared inputs found in
\* the data bag
extractPropsFromVNodeData(data, C, tag) ==
  [p \in C.options.props |->
     IF data.attrs.isDef THEN data.attrs.val[p] ELSE "undefined"]

\* new VNode(tag, data, children, text, elm, context, componentOptions,
\* asyncFactory)
VNode(tag, data, children, text, elm, ctx, componentOpts, asyncFactory) ==
  [tag |-> tag, data |-> data, children |-> children, text |-> text,
   elm |-> elm, context |-> ctx, componentOptions |-> componentOpts,
   asyncFactory |-> asyncFactory]

(***************************************************************************)
(* transformModel                                                           *)
(***************************************************************************)
\* (options.model && options.model.prop) || 'value'
modelProp(options) ==
  IF options.model.isDef /\ options.model.prop # "" THEN options.model.prop
  ELSE "value"

\* (options.model && options.model.event) || 'input'
modelEvent(options) ==
  IF options.model.isDef /\ options.model.event # "" THEN options.model.event
  ELSE "input"

\* existing.indexOf(callback) === -1
NotIn(fs, f) == \A j \in 1..Len(fs) : fs[j] # f

\* transformModel without the test for a callback that is already there
modelListenerNoDedupe(existing, callback) ==
  IF existing.kind # "undefined"
  THEN Arr(<<callback>> \o existing.fns)
  ELSE Fn(callback)

\* transformModel: what on[event] holds once the callback has been added
modelListener(existing, callback) ==
  IF existing.kind # "undefined"
  THEN IF (IF existing.kind = "array" THEN NotIn(existing.fns, callback)
           ELSE existing.fns[1] # callback)
       THEN Arr(<<callback>> \o existing.fns)
       ELSE existing
  ELSE Fn(callback)

\* transformModel: data.attrs[prop] = data.model.value and the listener added
transformModel(options, data) ==
  LET prop == modelProp(options)
      event == modelEvent(options)
      attrs == IF data.attrs.isDef THEN data.attrs ELSE EmptyAttrs
      on == IF data.on.isDef THEN data.on ELSE EmptyBag
  IN [data EXCEPT
        !.attrs = [attrs EXCEPT !.val[prop] = data.model.value],
        !.on = [on EXCEPT
                  !.ev[event] = modelListener(on.ev[event], data.model.callback)]]

(***************************************************************************)
(* createComponent                                                          *)
(***************************************************************************)
\* data.hook after installComponentHooks(data)
withHooks(data) ==
  [data EXCEPT !.hasHook = TRUE, !.hook = installComponentHooks(data.hook)]

\* the abstract branch carrying data.hook over to the new data bag
abstractDataKeepsHook(data) ==
  [EmptyData EXCEPT !.slot = data.slot, !.hasHook = data.hasHook,
                    !.hook = data.hook]

\* abstract components: data = {}; if (slot) data.slot = slot
abstractData(data) == [EmptyData EXCEPT !.slot = data.slot]

\* the listeners read after the abstract branch has replaced the data bag
extractListenersLate(C, data) ==
  IF C.options.abstract THEN abstractData(data).on ELSE data.on

\* extract listeners: const listeners = data.on
extractListeners(C, data) == data.on

\* createComponent without data.on = data.nativeOn
replaceOnKept(data) == data

\* replace with listeners with .native modifier: data.on = data.nativeOn
replaceOn(data) == [data EXCEPT !.on = data.nativeOn]

\* a return without a node placed after the installation of the hooks
noNodeWithHooks(warnings, data) ==
  [kind |-> "undefined", ready |-> FALSE, warnings |-> warnings,
   calls |-> IF warnings = <<>> THEN <<>> ELSE <<"warn">>,
   bag |-> IF data.isDef THEN withHooks(data) ELSE data, node |-> <<>>]

\* return without a node; the caller's data bag is as it was passed
noNode(warnings, data) ==
  [kind |-> "undefined", ready |-> FALSE, warnings |-> warnings,
   calls |-> IF warnings = <<>> THEN <<>> ELSE <<"warn">>,
   bag |-> data, node |-> <<>>]

\* warn(`Invalid Component definition: ${String(Ctor)}`, context)
invalidWarning(prod, ref, ctx) ==
  IF prod THEN <<>>
  ELSE <<[msg |-> "Invalid Component definition: ", of |-> ref.str,
          vm |-> ctx]>>

\* the part of createComponent after the constructor is known
createNode(C, data0, ctx, children, tag, asyncFactory, pre) ==
  LET data1 == IF data0.isDef THEN data0 ELSE EmptyData
      data2 == IF data1.model.isDef THEN transformModel(C.options, data1)
               ELSE data1
      propsData == extractPropsFromVNodeData(data2, C, tag)
      listeners == extractListeners(C, data2)
      data3 == replaceOn(data2)
      data4 == IF C.options.abstract THEN abstractData(data3) ELSE data3
      data5 == withHooks(data4)
      name == IF C.options.name # "" THEN C.options.name ELSE tag
  IN IF C.options.functional
     THEN [kind |-> "functional", ready |-> TRUE, warnings |-> <<>>,
           calls |-> pre \o <<"resolveConstructorOptions",
                             "extractPropsFromVNodeData",
                             "createFunctionalComponent">>,
           bag |-> IF data0.isDef THEN data2 ELSE data0,
           node |-> [Ctor |-> C, propsData |-> propsData, data |-> data2,
                     context |-> ctx, children |-> children]]
     ELSE [kind |-> "vnode", ready |-> TRUE, warnings |-> <<>>,
           calls |-> pre \o <<"resolveConstructorOptions",
                             "extractPropsFromVNodeData", "new VNode">>,
           bag |-> IF ~data0.isDef THEN data0
                   ELSE IF C.options.abstract THEN data3 ELSE data5,
           node |-> VNode([prefix |-> "vue-component", cid |-> C.cid,
                           name |-> name],
                          data5, "undefined", "undefined", "undefined", ctx,
                          [Ctor |-> C, propsData |-> propsData,
                           listeners |-> listeners, tag |-> tag,
                           children |-> children],
                          asyncFactory)]

\* createComponent without the return of the async placeholder
asyncPendingNever(resolvedCtor) == FALSE

\* if (Ctor === undefined), after resolveAsyncComponent
asyncPending(resolvedCtor) == resolvedCtor.typeof = "undefined"

\* the model transformed before the factory is resolved
asyncDataTransformed(factory, data) ==
  IF data.isDef /\ data.model.isDef THEN transformModel(factory.options, data)
  ELSE data

\* the data bag when the factory is resolved: nothing has touched it yet
asyncData(factory, data) == data

\* createComponent; ready tells whether the async factory has resolved
createComponent(ref, data, ctx, children, tag, prod, ready) ==
  IF isUndef(ref) THEN noNode(<<>>, data)
  ELSE
    LET C == IF isObject(ref) THEN extend(ref) ELSE ref
        pre == IF isObject(ref) THEN <<"extend">> ELSE <<>>
    IN IF C.typeof # "function"
       THEN noNode(invalidWarning(prod, C, ctx), data)
       ELSE IF C.cid = 0
       THEN LET resolvedCtor == resolveAsyncComponent(C, ready)
                raw == asyncData(C, data)
            IN
            IF asyncPending(resolvedCtor)
            THEN [kind |-> "asyncPlaceholder", ready |-> FALSE,
                  warnings |-> <<>>,
                  calls |-> <<"resolveAsyncComponent",
                              "createAsyncPlaceholder">>,
                  bag |-> raw,
                  node |-> createAsyncPlaceholder(C, raw, ctx, children, tag)]
            ELSE createNode(resolvedCtor, raw, ctx, children, tag, C,
                            <<"resolveAsyncComponent">>)
       ELSE createNode(C, data, ctx, children, tag, UndefinedRef, pre)

NotBuilt ==
  [kind |-> "none", ready |-> FALSE, warnings |-> <<>>, calls |-> <<>>,
   bag |-> UndefinedData, node |-> <<>>]

NoArg ==
  [Ctor |-> UndefinedRef, data |-> UndefinedData, context |-> "ctx",
   children |-> "undefined", tag |-> "undefined"]

BuildIdle ==
  /\ production = FALSE
  /\ arg = NoArg
  /\ resolved = FALSE
  /\ built = NotBuilt
  /\ pended = FALSE

\* one occurrence of a component in a render function, in either build mode
BuildInit ==
  /\ production \in BOOLEAN
  /\ arg \in [Ctor : Refs, data : DataChoices, context : {"ctx"},
              children : {"children"}, tag : {"my-comp"}]
  /\ resolved = FALSE
  /\ built = NotBuilt
  /\ pended = FALSE

\* the render function runs createComponent on the occurrence
build ==
  /\ built' = createComponent(arg.Ctor, arg.data, arg.context, arg.children,
                              arg.tag, production, resolved)
  /\ pended' = (pended \/ built'.kind = "asyncPlaceholder")
  /\ UNCHANGED <<production, arg, resolved>>
  /\ UNCHANGED <<lifeVars, installVars>>

\* the async factory resolves; the forced re-render builds again
factoryResolves ==
  /\ arg.Ctor.typeof = "function"
  /\ arg.Ctor.cid = 0
  /\ ~resolved
  /\ resolved' = TRUE
  /\ UNCHANGED <<production, arg, built, pended>>
  /\ UNCHANGED <<lifeVars, installVars>>

(***************************************************************************)
(* Specifications                                                           *)
(***************************************************************************)
Init == LifeInit /\ InstallIdle /\ BuildIdle

Next ==
  \/ \E n \in Nodes, a \in ActiveInstances, h \in BOOLEAN : init(n, a, h)
  \/ \E o \in Nodes, n \in Nodes : prepatch(o, n)
  \/ \E n \in Nodes : insert(n)
  \/ \E n \in Nodes : destroy(n)
  \/ hookReturns
  \/ \E c \in Contexts : contextMounted(c)
  \/ flushActivated

Spec == Init /\ [][Next]_vars

LifeIdle ==
  /\ componentInstance = [n \in Nodes |-> NoInst]
  /\ keepAlive = [n \in Nodes |-> FALSE]
  /\ context = [n \in Nodes |-> "ctx"]
  /\ ctxMounted = [c \in Contexts |-> FALSE]
  /\ vm = [i \in Insts |-> [_isMounted |-> FALSE, _isDestroyed |-> FALSE]]
  /\ nInst = 0
  /\ mountedCalls = [i \in Insts |-> 0]
  /\ destroyCalls = [i \in Insts |-> 0]
  /\ activatedChildren = <<>>
  /\ inactive = {}
  /\ last = NoCall
  /\ rt = NoTrip

InitInstall == LifeIdle /\ InstallInit /\ BuildIdle

NextInstall ==
  \/ install
  \/ \E key \in HookNames, a \in HookArgs, b \in HookArgs : invoke(key, a, b)

SpecInstall == InitInstall /\ [][NextInstall]_vars

InitBuild == LifeIdle /\ InstallIdle /\ BuildInit

NextBuild ==
  \/ build
  \/ factoryResolves

SpecBuild == InitBuild /\ [][NextBuild]_vars

(***************************************************************************)
(* Properties of the patch hooks (Spec)                                     *)
(***************************************************************************)
\* the instance the last hook call acted on, read in the state before it
calledInst == componentInstance[last'.node]

\* C1 (Mounted-once): callHook(instance, 'mounted') is made at most once per
\* instance; an insert call on an instance with _isMounted false sets it true
\* and makes the call, an insert call on a mounted instance makes no such
\* call, no other hook makes it, and _isMounted changes only in insert and
\* is never reset to false.
C1_MountedOnce ==
  [][ /\ \A i \in Insts :
           /\ mountedCalls'[i] <= 1
           /\ vm[i]._isMounted => vm'[i]._isMounted
           /\ vm'[i]._isMounted # vm[i]._isMounted =>
                last'.op = "insert" /\ calledInst = i
      /\ last'.op = "insert" =>
           IF ~vm[calledInst]._isMounted
           THEN /\ vm'[calledInst]._isMounted
                /\ CountEv(last'.events, "callHook") = 1
                /\ Head(last'.events) = EvCallHook(calledInst, "mounted")
                /\ mountedCalls'[calledInst] = 1
           ELSE /\ CountEv(last'.events, "callHook") = 0
                /\ mountedCalls' = mountedCalls
      /\ last'.op # "insert" =>
           /\ CountEv(last'.events, "callHook") = 0
           /\ mountedCalls' = mountedCalls
    ]_vars

\* an insert call on an instance that an earlier insert call had mounted
C1_Witness ==
  /\ last.op = "insert"
  /\ CountEv(last.events, "callHook") = 0
  /\ vm[componentInstance[last.node]]._isMounted
  /\ mountedCalls[componentInstance[last.node]] = 1

\* C2 (Instance identity across update): prepatch(N1, N2) leaves N2 holding
\* the instance N1 holds, calls updateChildComponent exactly once with that
\* instance, N2's propsData, N2's listeners, N2 and N2's children, and
\* constructs, mounts, destroys and deactivates nothing.
C2_PrepatchIdentity ==
  [][ last'.op = "prepatch" =>
        LET i == componentInstance[last'.old] IN
        /\ componentInstance'[last'.node] = i
        /\ componentInstance'[last'.old] = i
        /\ last'.events =
             <<[e |-> "update", inst |-> i,
                propsData |-> componentOptions[last'.node].propsData,
                listeners |-> componentOptions[last'.node].listeners,
                vnode |-> last'.node,
                children |-> componentOptions[last'.node].children]>>
        /\ nInst' = nInst
        /\ vm' = vm
        /\ destroyCalls' = destroyCalls
        /\ mountedCalls' = mountedCalls
    ]_vars

\* a prepatch call that handed an instance from one node to another one
C2_Witness ==
  /\ last.op = "prepatch"
  /\ last.old # last.node
  /\ componentInstance[last.node] # NoInst
  /\ componentInstance[last.node] = componentInstance[last.old]
  /\ componentOptions[last.node] # componentOptions[last.old]

\* C3 (Keep-alive round trip): destroy on a node with data.keepAlive never
\* calls $destroy and leaves _isDestroyed as it was, deactivating a live
\* instance; the init that follows on a keep-alive node holding that
\* instance constructs and mounts nothing and updates the instance; the
\* insert that follows activates it directly or queues it; the number of
\* constructed instances is the same after the three calls as before them.
C3_KeepAliveRoundTrip ==
  [][ /\ (last'.op = "destroy" /\ keepAlive[last'.node]) =>
           /\ CountEv(last'.events, "$destroy") = 0
           /\ vm' = vm
           /\ destroyCalls' = destroyCalls
           /\ ~vm[calledInst]._isDestroyed =>
                last'.events = <<EvDeactivate(calledInst)>>
      /\ (rt'.phase = 2 /\ last' # NoCall) =>
           /\ nInst' = rt'.base
           /\ componentInstance' = componentInstance
           /\ last'.op = "init"
           /\ last'.events =
                <<EvUpdate(rt'.inst, componentOptions[rt'.node], rt'.node)>>
      /\ (rt'.phase = 3 /\ last' # NoCall) =>
           /\ nInst' = rt'.base
           /\ last'.op = "insert"
           /\ componentInstance'[rt'.node] = rt'.inst
           /\ ~vm'[rt'.inst]._isDestroyed
           /\ CountEv(last'.events, "construct") = 0
           /\ CountEv(last'.events, "$mount") = 0
           /\ CountEv(last'.events, "queueActivated")
                + CountEv(last'.events, "activate") = 1
           /\ last'.events[Len(last'.events)].inst = rt'.inst
           /\ last'.events[Len(last'.events)].e \in {"queueActivated", "activate"}
    ]_vars

\* a destroy, init and insert were made back to back on a kept-alive instance
C3_Witness ==
  /\ rt.phase = 3
  /\ nInst = rt.base
  /\ last.op = "insert"

\* C4 (Teardown at most once): $destroy is called at most once per instance;
\* a destroy call on a destroyed instance makes no outside call and changes
\* nothing; a destroy call on a keep-alive node never calls $destroy; a
\* destroy call on a live instance of a node without keepAlive calls
\* $destroy once.
C4_TeardownOnce ==
  [][ /\ \A i \in Insts : destroyCalls'[i] <= 1
      /\ last'.op # "destroy" => destroyCalls' = destroyCalls
      /\ last'.op = "destroy" =>
           /\ vm[calledInst]._isDestroyed =>
                /\ last'.events = <<>>
                /\ vm' = vm
                /\ destroyCalls' = destroyCalls
           /\ keepAlive[last'.node] =>
                /\ CountEv(last'.events, "$destroy") = 0
                /\ destroyCalls' = destroyCalls
           /\ (~vm[calledInst]._isDestroyed /\ ~keepAlive[last'.node]) =>
                /\ last'.events = <<EvDestroy(calledInst)>>
                /\ vm'[calledInst]._isDestroyed
                /\ destroyCalls'[calledInst] = 1
    ]_vars

\* a destroy call on an instance that an earlier destroy call had torn down
C4_Witness ==
  /\ last.op = "destroy"
  /\ last.events = <<>>
  /\ vm[componentInstance[last.node]]._isDestroyed
  /\ destroyCalls[componentInstance[last.node]] = 1

\* C9 (Keep-alive activation gate): an insert call on a keep-alive node
\* appends the instance to the activation queue and does not activate it
\* when context._isMounted is true, and activates it directly and does not
\* queue it when context._isMounted is false; an insert call on a node
\* without keepAlive neither activates nor queues.
C9_ActivationGate ==
  [][ last'.op = "insert" =>
        IF keepAlive[last'.node]
        THEN IF ctxMounted[context[last'.node]]
             THEN /\ activatedChildren' = Append(activatedChildren, calledInst)
                  /\ CountEv(last'.events, "queueActivated") = 1
                  /\ CountEv(last'.events, "activate") = 0
                  /\ last'.events[Len(last'.events)] = EvQueue(calledInst)
             ELSE /\ activatedChildren' = activatedChildren
                  /\ CountEv(last'.events, "queueActivated") = 0
                  /\ CountEv(last'.events, "activate") = 1
                  /\ last'.events[Len(last'.events)] = EvActivate(calledInst)
        ELSE /\ activatedChildren' = activatedChildren
             /\ CountEv(last'.events, "queueActivated") = 0
             /\ CountEv(last'.events, "activate") = 0
    ]_vars

\* an insert call that mounted the instance (it was not mounted) and queued
\* it, because the context was mounted
C9_Witness ==
  /\ last.op = "insert"
  /\ last.events = <<EvCallHook(componentInstance[last.node], "mounted"),
                     EvQueue(componentInstance[last.node])>>
  /\ ctxMounted[context[last.node]]

\* the node the last init call was made on held a live instance and is kept
\* alive, read in the state before the call
calledKeptAlive ==
  /\ calledInst # NoInst
  /\ ~vm[calledInst]._isDestroyed
  /\ keepAlive[last'.node]

\* C11 as claimed (Exclusive ownership): between hook calls every live
\* instance is referenced through componentInstance by exactly one node.
C11_ExclusiveOwnership ==
  last = NoCall =>
    \A i \in 1..nInst :
      ~vm[i]._isDestroyed =>
        Cardinality({n \in Nodes : componentInstance[n] = i}) = 1

\* C11 as amended (Shared ownership): prepatch(N1, N2) makes N2 reference the
\* instance N1 references and leaves the reference of every other node, N1
\* included, as it was; a node comes to reference an instance that another
\* node references only as the new node of a prepatch call.
C11_SharedOwnership ==
  [][ /\ last'.op = "prepatch" =>
           /\ componentInstance'[last'.node] = componentInstance[last'.old]
           /\ \A m \in Nodes \ {last'.node} :
                componentInstance'[m] = componentInstance[m]
      /\ \A m \in Nodes, k \in Nodes :
           ( /\ m # k
             /\ componentInstance'[m] # NoInst
             /\ componentInstance'[m] = componentInstance'[k]
             /\ componentInstance[m] # componentInstance[k] ) =>
             /\ last'.op = "prepatch"
             /\ last'.node \in {m, k}
             /\ componentInstance'[m] = componentInstance[last'.old]
    ]_vars

\* prepatch handed a live instance to another node, which held a different
\* instance before; both nodes reference it now
C11_Witness ==
  /\ last.op = "prepatch"
  /\ last.old # last.node
  /\ componentInstance[last.old] = componentInstance[last.node]
  /\ ~vm[componentInstance[last.node]]._isDestroyed
  /\ last.prev # NoInst
  /\ last.prev # componentInstance[last.node]

\* C12 (init branch): init on a node that holds a live instance and has
\* data.keepAlive constructs and mounts nothing and runs prepatch(node, node)
\* once; in every other case it constructs one new instance with the node as
\* _parentVnode and the active instance as parent, stores it in the node's
\* componentInstance and mounts it once.
C12_InitBranch ==
  [][ last'.op = "init" =>
        LET n == last'.node IN
        IF calledKeptAlive
        THEN /\ nInst' = nInst
             /\ componentInstance' = componentInstance
             /\ last'.events =
                  <<[e |-> "update", inst |-> calledInst,
                     propsData |-> componentOptions[n].propsData,
                     listeners |-> componentOptions[n].listeners,
                     vnode |-> n,
                     children |-> componentOptions[n].children]>>
        ELSE /\ nInst' = nInst + 1
             /\ componentInstance'[n] = nInst'
             /\ \A m \in Nodes : componentInstance[m] # nInst'
             /\ \A m \in Nodes \ {n} :
                  componentInstance'[m] = componentInstance[m]
             /\ ~vm'[nInst']._isMounted
             /\ ~vm'[nInst']._isDestroyed
             /\ last'.active \in ActiveInstances
             /\ Len(last'.events) = 2
             /\ last'.events[1] =
                  [e |-> "construct", inst |-> nInst', vnode |-> n,
                   parent |-> last'.active]
             /\ last'.events[2].e = "$mount"
             /\ last'.events[2].inst = nInst'
    ]_vars

\* init on a keep-alive node that held a destroyed instance constructed a new
\* one, parented to an instance other than the node's context
C12_Witness ==
  /\ last.op = "init"
  /\ keepAlive[last.node]
  /\ last.prev # NoInst
  /\ vm[last.prev]._isDestroyed
  /\ componentInstance[last.node] # last.prev
  /\ CountEv(last.events, "construct") = 1
  /\ last.active # context[last.node]

\* C13 as claimed (componentInstance set once): componentInstance starts
\* unset and, once assigned, is never assigned a different instance.
C13_SetOnce ==
  /\ \A n \in Nodes : componentInstance[n] = NoInst
  /\ [][ \A n \in Nodes :
           componentInstance[n] # NoInst =>
             componentInstance'[n] = componentInstance[n] ]_vars

\* C13 as amended: componentInstance starts unset and is never unset again;
\* it changes only by an init call on the node that takes the creating
\* branch, which stores a new instance, or by a prepatch call with the node
\* as the new node, which stores the old node's instance; and init on a node
\* whose instance is destroyed, or that is not kept alive, always replaces it.
C13_Assignment ==
  /\ \A n \in Nodes : componentInstance[n] = NoInst
  /\ [][ \A n \in Nodes :
           /\ componentInstance[n] # NoInst => componentInstance'[n] # NoInst
           /\ componentInstance'[n] # componentInstance[n] =>
                /\ last'.node = n
                /\ \/ /\ last'.op = "init"
                      /\ ~calledKeptAlive
                      /\ componentInstance'[n] = nInst + 1
                   \/ /\ last'.op = "prepatch"
                      /\ componentInstance'[n] = componentInstance[last'.old]
           /\ ( /\ last'.op = "init"
                /\ last'.node = n
                /\ componentInstance[n] # NoInst
                /\ (vm[componentInstance[n]]._isDestroyed \/ ~keepAlive[n]) ) =>
                componentInstance'[n] \notin {componentInstance[n], NoInst}
       ]_vars

\* init on a node without keepAlive that held a live instance replaced it
C13_Witness ==
  /\ last.op = "init"
  /\ ~keepAlive[last.node]
  /\ last.prev # NoInst
  /\ ~vm[last.prev]._isDestroyed
  /\ componentInstance[last.node] \notin {last.prev, NoInst}

\* C14 (Back-reference consistency): when an init or a prepatch call is
\* complete, the node it handed to the instance (as _parentVnode of the
\* construction, or as the new node of updateChildComponent) is the node the
\* call was made for, and that node's componentInstance is that instance.
C14_BackReference ==
  [][ last'.op \in {"init", "prepatch"} =>
        /\ Len(last'.events) >= 1
        /\ last'.events[1].e \in {"construct", "update"}
        /\ \A j \in 1..Len(last'.events) :
             last'.events[j].e \in {"construct", "update"} =>
               /\ last'.events[j].vnode = last'.node
               /\ componentInstance'[last'.events[j].vnode] = last'.events[j].inst
    ]_vars

\* prepatch updated an instance with a node that held a different instance
\* until then
C14_Witness ==
  /\ last.op = "prepatch"
  /\ last.old # last.node
  /\ last.events[1].e = "update"
  /\ last.events[1].vnode = last.node
  /\ componentInstance[last.node] = last.events[1].inst
  /\ last.prev \notin {NoInst, componentInstance[last.node]}
  /\ vm[last.prev]._isDestroyed

\* C20 as claimed (No mounted after destroy): callHook(instance, 'mounted')
\* is never made for an instance whose $destroy has run.
C20_NoMountedAfterDestroy ==
  [][ \A i \in Insts :
        mountedCalls'[i] > mountedCalls[i] => ~vm[i]._isDestroyed ]_vars

\* C20 as amended: insert tests _isMounted only; an insert call on a node
\* whose instance is destroyed and was never marked mounted marks it mounted
\* and makes the 'mounted' call once, an insert call on a destroyed instance
\* that is marked mounted makes no such call, and no other hook makes the call
\* for a destroyed instance.
C20_MountedIgnoresDestroyed ==
  [][ /\ (last'.op = "insert" /\ vm[calledInst]._isDestroyed) =>
           IF ~vm[calledInst]._isMounted
           THEN /\ CountEv(last'.events, "callHook") = 1
                /\ last'.events[1] = EvCallHook(calledInst, "mounted")
                /\ vm'[calledInst]._isMounted
                /\ vm'[calledInst]._isDestroyed
                /\ mountedCalls'[calledInst] = 1
           ELSE /\ CountEv(last'.events, "callHook") = 0
                /\ mountedCalls' = mountedCalls
      /\ \A i \in Insts :
           (vm[i]._isDestroyed /\ mountedCalls'[i] > mountedCalls[i]) =>
             /\ last'.op = "insert"
             /\ calledInst = i
             /\ ~vm[i]._isMounted
    ]_vars

\* an insert call made the 'mounted' call for an instance that a destroy call
\* had torn down before it was ever inserted
C20_Witness ==
  /\ last.op = "insert"
  /\ Len(last.events) >= 1
  /\ last.events[1] = EvCallHook(last.prev, "mounted")
  /\ vm[last.prev]._isDestroyed
  /\ destroyCalls[last.prev] = 1
  /\ mountedCalls[last.prev] = 1

C5_MergeOrdering ==
  \A k \in HookNames :
    (installs >= 1 /\ invoked.key = k /\ given[k].id \in UserFns) =>
      invoked.calls =
        <<[fn |-> k, a |-> invoked.a, b |-> invoked.b],
          [fn |-> given[k].id, a |-> invoked.a, b |-> invoked.b]>>

\* the merged insert hook of a bag that had a user insert hook was invoked
C5_Witness ==
  /\ installs >= 1
  /\ invoked.key = "insert"
  /\ given["insert"] = UserHook("user1")
  /\ invoked.a # invoked.b
  /\ Len(invoked.calls) = 2

pendingBuild ==
  /\ built.kind = "asyncPlaceholder"
  /\ built.node.asyncFactory = arg.Ctor
  /\ built.node.asyncMeta =
       [data |-> arg.data, context |-> arg.context,
        children |-> arg.children, tag |-> arg.tag]
  /\ built.bag = arg.data
  /\ built.bag.hook = arg.data.hook
  /\ built.calls = <<"resolveAsyncComponent", "createAsyncPlaceholder">>

\* the build of an async factory that is ready: a component placeholder node
\* of the resolved constructor that carries the factory
readyBuild ==
  /\ built.kind = "vnode"
  /\ built.node.componentOptions.Ctor.typeof = "function"
  /\ built.node.componentOptions.Ctor.cid # 0
  /\ built.node.componentOptions.Ctor.options = arg.Ctor.options
  /\ built.node.asyncFactory = arg.Ctor

\* C7 as claimed (Async two-pass resolution): a build of an async factory
\* returns the async placeholder when the resolver returns 'not ready' and a
\* component placeholder node of the resolved constructor when it returns a
\* constructor.
C7_AsyncTwoPassAny ==
  (built.kind # "none" /\ arg.Ctor \in FactoryRefs) =>
    IF built.ready THEN readyBuild ELSE pendingBuild

\* C7 as amended: the same, where the resolved constructor is not a
\* functional one; for a functional constructor the ready build is handed to
\* createFunctionalComponent.
C7_AsyncTwoPass ==
  (built.kind # "none" /\ arg.Ctor \in FactoryRefs) =>
    IF ~built.ready THEN pendingBuild
    ELSE IF arg.Ctor.options.functional THEN built.kind = "functional"
    ELSE readyBuild

\* a factory was built while pending and built again once it had resolved
C7_Witness ==
  /\ pended
  /\ resolved
  /\ arg.Ctor \in FactoryRefs
  /\ built.kind = "vnode"
  /\ built.node.asyncFactory = arg.Ctor

\* C8 (Binding transform): a node built with model = {value: v, callback: fn}
\* has v as the input under the constructor's model prop name (default
\* 'value'), and under the model event name (default 'input') its
\* componentOptions.listeners hold fn when there was no listener, [fn, g] for
\* a single other listener g, [fn] followed by the list for a list without
\* fn, and the entry as it was when it is fn or a list containing fn.
C8_BindingTransform ==
  (built.kind = "vnode" /\ arg.data.model.isDef) =>
    LET options == built.node.componentOptions.Ctor.options
        prop == IF options.model.prop # "" THEN options.model.prop ELSE "value"
        event == IF options.model.event # "" THEN options.model.event
                 ELSE "input"
        v == arg.data.model.value
        fn == arg.data.model.callback
        existing == arg.data.on.ev[event]
        listener == built.node.componentOptions.listeners.ev[event]
    IN /\ IF prop \in options.props
          THEN built.node.componentOptions.propsData[prop] = v
          ELSE built.bag.attrs.val[prop] = v
       /\ existing.kind = "undefined" => listener = Fn(fn)
       /\ (existing.kind = "function" /\ existing.fns # <<fn>>) =>
            listener = Arr(<<fn, existing.fns[1]>>)
       /\ (existing.kind = "array" /\ NotIn(existing.fns, fn)) =>
            listener = Arr(<<fn>> \o existing.fns)
       /\ (existing.kind = "function" /\ existing.fns = <<fn>>) =>
            listener = existing
       /\ (existing.kind = "array" /\ ~NotIn(existing.fns, fn)) =>
            listener = existing
       /\ \A e \in EventNames \ {event} :
            built.node.componentOptions.listeners.ev[e] = arg.data.on.ev[e]

\* a node built with a model on a constructor that names its own model event,
\* where a list holding the callback already listened to that event
C8_Witness ==
  /\ built.kind = "vnode"
  /\ arg.data.model.isDef
  /\ built.node.componentOptions.Ctor.options.model.event = "change"
  /\ arg.data.on.ev["change"] = Arr(<<"g", "fn">>)
  /\ built.node.componentOptions.listeners.ev["change"] = Arr(<<"g", "fn">>)
  /\ built.bag.attrs.val["checked"] = "v1"

\* a build that returned no node made no outside call but the warning and
\* left the data bag as it was passed
noNodeBuild ==
  /\ built.kind = "undefined"
  /\ built.bag = arg.data
  /\ built.bag.hasHook = arg.data.hasHook
  /\ built.bag.hook = arg.data.hook
  /\ built.calls = (IF built.warnings = <<>> THEN <<>> ELSE <<"warn">>)

invalidWarned ==
  built.warnings =
    <<[msg |-> "Invalid Component definition: ", of |-> arg.Ctor.str,
       vm |-> arg.context]>>

\* C10 as claimed (Invalid definition): a reference that is not undefined,
\* null, an object or a function gets the 'Invalid Component definition'
\* warning and no node; undefined and null get no node and no warning; in
\* both cases the data bag is unchanged, no hook is installed and nothing is
\* constructed.
C10_InvalidAlwaysWarns ==
  /\ (built.kind # "none" /\ arg.Ctor \in InvalidRefs) =>
       noNodeBuild /\ invalidWarned
  /\ (built.kind # "none" /\ isUndef(arg.Ctor)) =>
       noNodeBuild /\ built.warnings = <<>>

\* C10 as amended: the same, where the warning is reported unless
\* process.env.NODE_ENV is 'production', in which case nothing is reported.
C10_InvalidDefinition ==
  /\ (built.kind # "none" /\ arg.Ctor \in InvalidRefs) =>
       /\ noNodeBuild
       /\ IF production THEN built.warnings = <<>> ELSE invalidWarned
  /\ (built.kind # "none" /\ isUndef(arg.Ctor)) =>
       noNodeBuild /\ built.warnings = <<>>

\* an invalid reference was built with a data bag that carries a user hook
C10_Witness ==
  /\ built.kind = "undefined"
  /\ arg.Ctor \in InvalidRefs
  /\ arg.data.hasHook
  /\ ~production
  /\ Len(built.warnings) = 1

\* the data bag createComponent works on: data = data || {}
rawData == IF arg.data.isDef THEN arg.data ELSE EmptyData

\* the options of the constructor of the node that was built
builtOptions == built.node.componentOptions.Ctor.options

\* the event the model callback listens to on the constructor that was built
builtModelEvent ==
  IF builtOptions.model.event # "" THEN builtOptions.model.event ELSE "input"

\* the functions of a listener entry
FnsOf(listener) == {listener.fns[j] : j \in 1..Len(listener.fns)}

\* the functions supplied under data.on, and those supplied under data.nativeOn
CustomFns == UNION {FnsOf(l.ev[e]) : l \in OnChoices, e \in EventNames} \cup {"fn"}
NativeFns == UNION {FnsOf(rawData.nativeOn.ev[e]) : e \in EventNames}

\* C16 (Listener separation): a node built for a constructor that is neither
\* functional nor abstract carries in componentOptions.listeners what data.on
\* held after the model transform (every entry as it was passed, the model
\* callback added under the model event) and in data.on what data.nativeOn
\* held; no custom listener is in data.on, no native one in the listeners.
C16_ListenerSeparation ==
  (built.kind = "vnode" /\ ~builtOptions.abstract) =>
    LET listeners == built.node.componentOptions.listeners IN
    /\ built.node.data.on = rawData.nativeOn
    /\ listeners.isDef = (rawData.on.isDef \/ rawData.model.isDef)
    /\ \A e \in EventNames :
         /\ (rawData.model.isDef /\ e = builtModelEvent) =>
              FnsOf(listeners.ev[e]) =
                FnsOf(rawData.on.ev[e]) \cup {rawData.model.callback}
         /\ ~(rawData.model.isDef /\ e = builtModelEvent) =>
              listeners.ev[e] = rawData.on.ev[e]
         /\ FnsOf(built.node.data.on.ev[e]) \cap CustomFns = {}
         /\ FnsOf(listeners.ev[e]) \cap NativeFns = {}

\* a node built from a bag with a model, custom listeners on the model event
\* and a native click listener
C16_Witness ==
  /\ built.kind = "vnode"
  /\ ~builtOptions.abstract
  /\ arg.data.model.isDef
  /\ arg.data.on.ev["input"] = Arr(<<"g", "h">>)
  /\ built.node.componentOptions.listeners.ev["input"] = Arr(<<"fn", "g", "h">>)
  /\ built.node.data.on = Bag("click", Fn("n"))

\* C17 (Abstract components keep nothing DOM-facing): the data of a node built
\* for an abstract constructor holds the slot that was given and the hook set
\* and nothing else (no on, nativeOn, attrs, model or other entry), and each
\* of the four hook slots holds the default hook, a user hook being dropped.
C17_AbstractData ==
  (built.kind = "vnode" /\ builtOptions.abstract) =>
    /\ built.node.data.slot = rawData.slot
    /\ built.node.data.hasHook
    /\ \A k \in HookNames : built.node.data.hook[k] = componentVNodeHooks(k)
    /\ built.node.data.on = NoBag
    /\ built.node.data.nativeOn = NoBag
    /\ built.node.data.attrs = NoAttrs
    /\ built.node.data.model = NoModel
    /\ built.node.data.staticClass = ""
    /\ built.node.data.isDef

\* an abstract node built from a bag with a slot, a class, a model, a native
\* listener and a user insert hook
C17_Witness ==
  /\ built.kind = "vnode"
  /\ builtOptions.abstract
  /\ arg.data.hook["insert"] = UserHook("user1")
  /\ arg.data.slot = "s"
  /\ arg.data.staticClass = "c"
  /\ arg.data.nativeOn.isDef
  /\ arg.data.model.isDef
  /\ built.node.data.slot = "s"
  /\ built.node.data.hook["insert"] = componentVNodeHooks("insert")

\* C18 (Abstract components keep their custom listeners): the node built for
\* an abstract constructor carries in componentOptions.listeners every
\* listener supplied under data.on, under its event, and the model callback
\* under the model event.
C18_AbstractListeners ==
  (built.kind = "vnode" /\ builtOptions.abstract) =>
    LET listeners == built.node.componentOptions.listeners IN
    /\ rawData.on.isDef => listeners.isDef
    /\ \A e \in EventNames : FnsOf(rawData.on.ev[e]) \subseteq FnsOf(listeners.ev[e])
    /\ rawData.model.isDef =>
         /\ listeners.isDef
         /\ rawData.model.callback \in FnsOf(listeners.ev[builtModelEvent])

\* an abstract node built from a bag with a model and two listeners on the
\* model event: its data has no listener, its componentOptions have the three
C18_Witness ==
  /\ built.kind = "vnode"
  /\ builtOptions.abstract
  /\ arg.data.model.isDef
  /\ arg.data.on.ev["input"] = Arr(<<"g", "h">>)
  /\ built.node.data.on = NoBag
  /\ built.node.componentOptions.listeners.ev["input"] = Arr(<<"fn", "g", "h">>)

\* the build of the occurrence with the constructor the factory resolves to
\* given in place of the factory
syncBuild ==
  createComponent(resolveAsyncComponent(arg.Ctor, TRUE), arg.data, arg.context,
                  arg.children, arg.tag, production, FALSE)

\* a pending build hands the data bag to the placeholder as it was passed
pendingUntouched ==
  built.kind = "asyncPlaceholder" =>
    /\ built.bag = arg.data
    /\ built.node.asyncMeta.data = arg.data
    /\ built.node.asyncMeta.data.model = arg.data.model
    /\ built.node.asyncMeta.data.attrs = arg.data.attrs
    /\ built.node.asyncMeta.data.on = arg.data.on
    /\ built.node.asyncMeta.data.hasHook = arg.data.hasHook

\* C19 as claimed (Pending async build has no side effects): a pending build
\* leaves the data bag untouched, and the build made once the factory has
\* resolved yields the node a build with that constructor yields.
C19_ReadySameNode ==
  /\ pendingUntouched
  /\ (pended /\ built.ready /\ arg.Ctor \in FactoryRefs) =>
       /\ built.kind = syncBuild.kind
       /\ built.node = syncBuild.node

\* C19 as amended: the same, where the node of the ready build differs from
\* the node of a build with that constructor in one field: its asyncFactory
\* is the factory.
C19_PendingNoEffect ==
  /\ pendingUntouched
  /\ (pended /\ built.ready /\ arg.Ctor \in FactoryRefs) =>
       /\ built.kind = syncBuild.kind
       /\ built.bag = syncBuild.bag
       /\ IF built.kind = "vnode"
          THEN /\ built.node.asyncFactory = arg.Ctor
               /\ syncBuild.node.asyncFactory = UndefinedRef
               /\ [built.node EXCEPT !.asyncFactory = UndefinedRef] =
                    syncBuild.node
          ELSE built.node = syncBuild.node

\* a factory was built while pending, with a model and a native listener in
\* the data bag, and built again once it had resolved
C19_Witness ==
  /\ pended
  /\ resolved
  /\ built.kind = "vnode"
  /\ arg.data.model.isDef
  /\ arg.data.nativeOn.isDef
  /\ arg.data.hasHook
  /\ built.node.data.on = arg.data.nativeOn
  /\ built.node.asyncFactory = arg.Ctor

====
